---------------------------- MODULE Spec2Model ----------------------------
(***************************************************************************)
(* Model of the three example programs of ecdsa-example:                   *)
(*   - aes/main.go: AES-GCM seal of input.pdf into ciphertext.pdf followed *)
(*     by the "Decrypting" block that writes input.pdf;                    *)
(*   - the encode/decode PEM round trip example;                           *)
(*   - the SignASN1 / VerifyASN1 example.                                  *)
(* The standard-library primitives the programs call (AES-GCM, ECDSA on    *)
(* P-384, SHA-256, x509/PEM) are modelled by small stand-ins that keep the *)
(* structure of the real algorithm (counter-mode keystream plus keyed tag, *)
(* ECDSA over a prime-order curve group, TLV encodings, base64) on values  *)
(* small enough to enumerate.                                              *)
(***************************************************************************)
EXTENDS Integers, Sequences, FiniteSets, TLC

VARIABLES
    \* ---- aes/main.go ----
    aesPc,          \* position of main: "read","nonce","seal","slice","open","write","exit","panic","fatal"
    inputPdf,       \* file input.pdf: [exists, bytes]
    ciphertextPdf,  \* file ciphertext.pdf: [exists, bytes]
    data,           \* main's variable data (re-sliced at line 43)
    nonce,          \* main's variable nonce
    ciphertext,     \* main's variable ciphertext
    reverseNonce,   \* main's variable reverseNonce
    plaintext,      \* main's variable plaintext
    aesLog,         \* history of the current run: failures, calls made, data as read
    aesHist,        \* history across runs: run count, files at first start, nonces sealed
    \* ---- encode/decode example ----
    keyPc, privateKey, publicKey, encPriv, encPub, priv2, pub2, keyOut,
    \* ---- sign/verify example ----
    sigPc, sigKey, msg, hash, sig, valid

aesVars == <<aesPc, inputPdf, ciphertextPdf, data, nonce, ciphertext,
             reverseNonce, plaintext, aesLog, aesHist>>
keyVars == <<keyPc, privateKey, publicKey, encPriv, encPub, priv2, pub2, keyOut>>
sigVars == <<sigPc, sigKey, msg, hash, sig, valid>>
vars == <<aesVars, keyVars, sigVars>>

(***************************************************************************)
(* Bounds of the model.                                                    *)
(***************************************************************************)
\* rand.Reader yields one of MaxNonce+1 different nonces.
MaxNonce == 1
\* The AES program is run at most MaxRuns times over the same files.
MaxRuns == 2
\* A failed write leaves at most MaxPartial bytes of the content in the file.
MaxPartial == 1

(***************************************************************************)
(* Bytes and byte sequences.                                               *)
(***************************************************************************)
RECURSIVE XorBits(_, _, _)
XorBits(a, b, n) ==
    IF n = 0 THEN 0
    ELSE ((a + b) % 2) + 2 * XorBits(a \div 2, b \div 2, n - 1)

Xor(a, b) == XorBits(a, b, 8)

RECURSIVE SumRange(_, _, _)
SumRange(s, lo, hi) ==
    IF lo > hi THEN 0
    ELSE IF lo = hi THEN s[lo]
    ELSE LET mid == (lo + hi) \div 2
         IN SumRange(s, lo, mid) + SumRange(s, mid + 1, hi)

SumSeq(s) == SumRange(s, 1, Len(s))

RECURSIVE PowMod(_, _, _)
PowMod(b, e, m) ==
    IF e = 0 THEN 1 % m
    ELSE LET h == PowMod(b, e \div 2, m)
         IN IF e % 2 = 0 THEN (h * h) % m ELSE (((h * h) % m) * b) % m

\* Go's s[:n] and s[n:] on a slice of known length (bounds already checked).
Take(s, n) == SubSeq(s, 1, n)
Drop(s, n) == SubSeq(s, n + 1, Len(s))

File(b) == [exists |-> TRUE, bytes |-> b]
NoFile == [exists |-> FALSE, bytes |-> <<>>]

(***************************************************************************)
(* crypto/aes and crypto/cipher as used by aes/main.go.                    *)
(***************************************************************************)
\* []byte("Test1234Test1234")
Key == <<84, 101, 115, 116, 49, 50, 51, 52, 84, 101, 115, 116, 49, 50, 51, 52>>

\* aes.NewCipher accepts 16, 24 or 32 byte keys and fails with KeySizeError otherwise.
NewCipherOk(k) == Len(k) \in {16, 24, 32}

\* gcm.NonceSize() and gcm.Overhead() of the standard GCM.
NonceSize == 12
TagSize == 16

\* The block cipher applied to the counter block (nonce, i): one keystream byte.
KeyStream(k, n, i) ==
    (SumSeq(k) + 7 * SumSeq(n) + 13 * i * i + 31 * i + n[((i - 1) % Len(n)) + 1]) % 256

\* Counter mode: XOR with the keystream (its own inverse).
Gctr(k, n, s) == [i \in 1..Len(s) |-> Xor(s[i], KeyStream(k, n, i))]

\* Keyed polynomial hash over associated data, ciphertext and both lengths.
\* sum of (s[i] + 1) * h^(Len(s) - i + 1) over i in lo..hi, modulo 257
RECURSIVE Poly(_, _, _, _)
Poly(h, s, lo, hi) ==
    IF lo > hi THEN 0
    ELSE IF lo = hi THEN ((s[lo] + 1) * PowMod(h, Len(s) - lo + 1, 257)) % 257
    ELSE LET mid == (lo + hi) \div 2
         IN (Poly(h, s, lo, mid) + Poly(h, s, mid + 1, hi)) % 257

GHashKey(k) == 2 + (SumSeq(k) % 250)

GHash(k, ad, c) ==
    LET s == ad \o c \o <<Len(ad) % 256, Len(c) % 256>>
    IN Poly(GHashKey(k), s, 1, Len(s))

\* The authentication tag: the hash masked with keystream of the nonce.
Tag(k, n, ad, c) ==
    LET g == GHash(k, ad, c)
    IN [j \in 1..TagSize |-> Xor((g * (2 * j + 1) + j) % 256, KeyStream(k, n, 1000 + j))]

\* gcm.Seal(dst, nonce, plaintext, additionalData): appends ciphertext and tag to dst.
Seal(k, dst, n, pt, ad) ==
    LET c == Gctr(k, n, pt) IN dst \o c \o Tag(k, n, ad, c)

\* gcm.Open(dst, nonce, ciphertext, additionalData): errOpen on a short input or a
\* tag mismatch, the plaintext appended to dst otherwise.
Open(k, dst, n, ct, ad) ==
    IF Len(ct) < TagSize THEN [ok |-> FALSE, out |-> <<>>]
    ELSE LET c == Take(ct, Len(ct) - TagSize)
             t == Drop(ct, Len(ct) - TagSize)
         IN IF t = Tag(k, n, ad, c)
            THEN [ok |-> TRUE, out |-> dst \o Gctr(k, n, c)]
            ELSE [ok |-> FALSE, out |-> <<>>]

\* The k-th value io.ReadFull(rand.Reader, nonce) can fill the nonce with.
NonceOf(k) == [i \in 1..NonceSize |-> (41 * k + 17 * i + 3) % 256]

RandNonces == {NonceOf(k) : k \in 0..MaxNonce}

(***************************************************************************)
(* aes/main.go: the files the program is started on.                       *)
(***************************************************************************)
\* "hello, world"
Hello == <<104, 101, 108, 108, 111, 44, 32, 119, 111, 114, 108, 100>>
\* "hi!"
Short == <<104, 105, 33>>
\* A 30-byte file that is no envelope.
Plain30 == [i \in 1..30 |-> (37 + 11 * i) % 256]
\* Envelopes sealed under the hardcoded key by an earlier encryption.
Envelope(k, pt) == Seal(Key, NonceOf(k), NonceOf(k), pt, <<>>)
\* An envelope with its last payload byte changed.
Tampered(e) == [e EXCEPT ![Len(e) - TagSize] = (@ + 1) % 256]

InputFiles ==
    { NoFile, File(<<>>), File(Short), File(Hello), File(Plain30),
      File(Envelope(0, Short)), File(Tampered(Envelope(0, Short))),
      File(Envelope(1, Envelope(0, Hello))) }

CiphertextFiles == { NoFile, File(Short) }

\* The history of one run of main.
NewLog(inp, ct) ==
    [ startInput  |-> inp,     \* input.pdf when the run started
      startCipher |-> ct,      \* ciphertext.pdf when the run started
      read        |-> <<>>,    \* data as returned by ReadFile
      failed      |-> {},      \* the steps that failed in this run
      sealNonce   |-> <<>>,    \* the nonce handed to Seal
      openCalled  |-> FALSE,   \* gcm.Open was called
      openNonce   |-> <<>>,    \* the nonce handed to Open
      openInput   |-> <<>>,    \* the ciphertext handed to Open
      wrote       |-> {} ]     \* the files a WriteFile call of this run opened for writing

\* The other two programs are not run.
AesInit ==
    /\ keyPc = "idle" /\ privateKey = 0 /\ publicKey = 0 /\ encPriv = 0 /\ encPub = 0
    /\ priv2 = 0 /\ pub2 = 0 /\ keyOut = 0
    /\ sigPc = "idle" /\ sigKey = 0 /\ msg = 0 /\ hash = 0 /\ sig = 0 /\ valid = 0
    /\ aesPc = "read"
    /\ inputPdf \in InputFiles
    /\ ciphertextPdf \in CiphertextFiles
    /\ data = <<>>
    /\ nonce = <<>>
    /\ ciphertext = <<>>
    /\ reverseNonce = <<>>
    /\ plaintext = <<>>
    /\ aesLog = NewLog(inputPdf, ciphertextPdf)
    /\ aesHist = [ runs      |-> 1,         \* runs started so far
                   orig      |-> inputPdf,  \* input.pdf before the first run
                   sealed    |-> {},        \* the nonces Seal was called with
                   reused    |-> FALSE,     \* Seal was called with a nonce of an earlier Seal
                   accepted  |-> FALSE,     \* some Open call returned a plaintext
                   overwrote |-> FALSE ]    \* some run wrote to input.pdf

\* ioutil.WriteFile(name, content, 0777): the file holds the content; or the open
\* fails and the file is untouched; or the write fails after the truncating open
\* and the file holds a proper prefix of the content (of at most MaxPartial bytes).
WriteFile(file, content) ==
    {[file |-> File(content), err |-> FALSE, touched |-> TRUE]}
    \cup {[file |-> file, err |-> TRUE, touched |-> FALSE]}
    \cup {[file |-> File(Take(content, k)), err |-> TRUE, touched |-> TRUE] :
             k \in 0..(IF Len(content) - 1 < MaxPartial THEN Len(content) - 1 ELSE MaxPartial)}

\* Lines 15-20: NewCipher (error dropped), ReadFile; a read error is printed and
\* main goes on with data = nil.
ReadFile ==
    /\ UNCHANGED <<keyVars, sigVars>>
    /\ aesPc = "read"
    /\ NewCipherOk(Key)
    /\ data' = IF inputPdf.exists THEN inputPdf.bytes ELSE <<>>
    /\ aesLog' = [aesLog EXCEPT
                    !.read = data',
                    !.failed = IF inputPdf.exists THEN @ ELSE @ \cup {"read"}]
    /\ aesPc' = "nonce"
    /\ UNCHANGED <<inputPdf, ciphertextPdf, nonce, ciphertext, reverseNonce,
                   plaintext, aesHist>>

\* Lines 21-31: NewGCM, then the nonce is filled from rand.Reader; log.Fatal when
\* the random source fails.
DrawNonceOk ==
    /\ UNCHANGED <<keyVars, sigVars>>
    /\ aesPc = "nonce"
    /\ \E n \in RandNonces : nonce' = n
    /\ aesPc' = "seal"
    /\ UNCHANGED <<inputPdf, ciphertextPdf, data, ciphertext, reverseNonce,
                   plaintext, aesLog, aesHist>>

DrawNonceFail ==
    /\ UNCHANGED <<keyVars, sigVars>>
    /\ aesPc = "nonce"
    /\ nonce' = [i \in 1..NonceSize |-> 0]
    /\ aesLog' = [aesLog EXCEPT !.failed = @ \cup {"rand"}]
    /\ aesPc' = "fatal"
    /\ UNCHANGED <<inputPdf, ciphertextPdf, data, ciphertext, reverseNonce,
                   plaintext, aesHist>>

SealCallNoPrefix(n, d) == Seal(Key, <<>>, n, d, <<>>)

\* Line 33: gcm.Seal(nonce, nonce, data, nil)
SealCall(n, d) == Seal(Key, n, n, d, <<>>)

\* Lines 33-38: Seal, then ciphertext.pdf is written; log.Panic on a write error.
SealAndSave ==
    /\ UNCHANGED <<keyVars, sigVars>>
    /\ aesPc = "seal"
    /\ ciphertext' = SealCall(nonce, data)
    /\ aesHist' = [aesHist EXCEPT
                     !.sealed = @ \cup {nonce},
                     !.reused = @ \/ nonce \in aesHist.sealed]
    /\ \E w \in WriteFile(ciphertextPdf, ciphertext') :
          /\ ciphertextPdf' = w.file
          /\ aesLog' = [aesLog EXCEPT
                          !.sealNonce = nonce,
                          !.failed = IF w.err THEN @ \cup {"writeCipher"} ELSE @,
                          !.wrote = IF w.touched
                                    THEN @ \cup {"ciphertext.pdf"} ELSE @]
          /\ aesPc' = IF w.err THEN "panic" ELSE "slice"
    /\ UNCHANGED <<inputPdf, data, nonce, reverseNonce, plaintext>>

SliceSourceCiphertext(d, c) == c

\* Lines 42-43 slice data, the bytes read from input.pdf (not ciphertext).
SliceSource(d, c) == d

\* Lines 42-43: reverseNonce := data[:NonceSize]; data = data[NonceSize:].  With
\* fewer than NonceSize bytes one of the two slice expressions is out of range
\* (the first when the capacity is short too, the second otherwise) and the
\* runtime panics.
Slice ==
    /\ UNCHANGED <<keyVars, sigVars>>
    /\ aesPc = "slice"
    /\ LET src == SliceSource(data, ciphertext) IN
         IF Len(src) < NonceSize
         THEN /\ aesPc' = "panic"
              /\ aesLog' = [aesLog EXCEPT !.failed = @ \cup {"sliceBounds"}]
              /\ UNCHANGED <<reverseNonce, data>>
         ELSE /\ aesPc' = "open"
              /\ reverseNonce' = Take(src, NonceSize)
              /\ data' = Drop(src, NonceSize)
              /\ UNCHANGED aesLog
    /\ UNCHANGED <<inputPdf, ciphertextPdf, nonce, ciphertext, plaintext, aesHist>>

AfterOpenIgnoreErr(ok) == "write"

\* Lines 45-47: log.Panic when Open returned an error.
AfterOpen(ok) == IF ok THEN "write" ELSE "panic"

\* Lines 44-47: gcm.Open(nil, reverseNonce, data, nil)
OpenStep ==
    /\ UNCHANGED <<keyVars, sigVars>>
    /\ aesPc = "open"
    /\ LET r == Open(Key, <<>>, reverseNonce, data, <<>>) IN
         /\ plaintext' = r.out
         /\ aesPc' = AfterOpen(r.ok)
         /\ aesLog' = [aesLog EXCEPT
                         !.openCalled = TRUE,
                         !.openNonce = reverseNonce,
                         !.openInput = data,
                         !.failed = IF r.ok THEN @ ELSE @ \cup {"open"}]
         /\ aesHist' = [aesHist EXCEPT !.accepted = @ \/ r.ok]
    /\ UNCHANGED <<inputPdf, ciphertextPdf, data, nonce, ciphertext, reverseNonce>>

\* Lines 49-53: input.pdf is overwritten with plaintext; log.Panic on a write error.
SavePlaintext ==
    /\ UNCHANGED <<keyVars, sigVars>>
    /\ aesPc = "write"
    /\ \E w \in WriteFile(inputPdf, plaintext) :
          /\ inputPdf' = w.file
          /\ aesLog' = [aesLog EXCEPT
                          !.failed = IF w.err THEN @ \cup {"writeInput"} ELSE @,
                          !.wrote = IF w.touched
                                    THEN @ \cup {"input.pdf"} ELSE @]
          /\ aesHist' = [aesHist EXCEPT !.overwrote = @ \/ w.touched]
          /\ aesPc' = IF w.err THEN "panic" ELSE "exit"
    /\ UNCHANGED <<ciphertextPdf, data, nonce, ciphertext, reverseNonce, plaintext>>

AesDone == aesPc \in {"exit", "panic", "fatal"}

\* The program is started again over the files the previous run left.
RunAgain ==
    /\ UNCHANGED <<keyVars, sigVars>>
    /\ AesDone
    /\ aesHist.runs < MaxRuns
    /\ aesPc' = "read"
    /\ data' = <<>>
    /\ nonce' = <<>>
    /\ ciphertext' = <<>>
    /\ reverseNonce' = <<>>
    /\ plaintext' = <<>>
    /\ aesLog' = NewLog(inputPdf, ciphertextPdf)
    /\ aesHist' = [aesHist EXCEPT !.runs = @ + 1]
    /\ UNCHANGED <<inputPdf, ciphertextPdf>>

AesNext ==
    \/ ReadFile
    \/ DrawNonceOk
    \/ DrawNonceFail
    \/ SealAndSave
    \/ Slice
    \/ OpenStep
    \/ SavePlaintext
    \/ RunAgain

(***************************************************************************)
(* crypto/elliptic and crypto/ecdsa as used by the two ECDSA examples.     *)
(***************************************************************************)
\* elliptic.P384(): a prime-order curve y^2 = x^3 + A*x + B over GF(P) with base
\* point (Gx, Gy) of order N, and its object identifier (1.3.132.0.34).
P384 ==
    [ Name |-> "P-384", P |-> 17, A |-> 2, B |-> 2, Gx |-> 5, Gy |-> 1, N |-> 19,
      Oid |-> <<43, 129, 4, 0, 34>> ]

\* The point at infinity and affine points.
Infinity == [inf |-> TRUE, x |-> 0, y |-> 0]
Point(x, y) == [inf |-> FALSE, x |-> x, y |-> y]

\* The inverse modulo a prime m.
InvMod(a, m) == PowMod(a % m, m - 2, m)

IsOnCurve(c, x, y) ==
    /\ x \in 0..(c.P - 1) /\ y \in 0..(c.P - 1)
    /\ (y * y) % c.P = (x * x * x + c.A * x + c.B) % c.P

\* Curve.Add
Add(c, p, q) ==
    IF p.inf THEN q
    ELSE IF q.inf THEN p
    ELSE IF p.x = q.x /\ (p.y + q.y) % c.P = 0 THEN Infinity
    ELSE LET l == IF p.x = q.x
                  THEN ((3 * p.x * p.x + c.A) * InvMod(2 * p.y, c.P)) % c.P
                  ELSE (((q.y - p.y) % c.P) * InvMod((q.x - p.x) % c.P, c.P)) % c.P
             x == (l * l - p.x - q.x) % c.P
         IN Point(x, (l * (p.x - x) - p.y) % c.P)

\* Curve.ScalarMult: double and add.
RECURSIVE ScalarMult(_, _, _)
ScalarMult(c, p, k) ==
    IF k = 0 THEN Infinity
    ELSE LET h == ScalarMult(c, p, k \div 2)
             d == Add(c, h, h)
         IN IF k % 2 = 0 THEN d ELSE Add(c, d, p)

\* Curve.ScalarBaseMult
ScalarBaseMult(c, k) == ScalarMult(c, Point(c.Gx, c.Gy), k)

\* *ecdsa.PrivateKey{PublicKey{Curve, X, Y}, D}, *ecdsa.PublicKey{Curve, X, Y} and nil.
PrivateKey(c, d) ==
    LET q == ScalarBaseMult(c, d)
    IN [isNil |-> FALSE, Curve |-> c.Name, X |-> q.x, Y |-> q.y, D |-> d]
PublicKey(c, x, y) == [isNil |-> FALSE, Curve |-> c.Name, X |-> x, Y |-> y]
Nil == [isNil |-> TRUE]

\* &privateKey.PublicKey
PublicKeyOf(priv) == [isNil |-> FALSE, Curve |-> priv.Curve, X |-> priv.X, Y |-> priv.Y]

\* ecdsa.GenerateKey(elliptic.P384(), rand.Reader): the keys it can return.
GenerateKey(c) == {PrivateKey(c, d) : d \in 1..(c.N - 1)}

(***************************************************************************)
(* encoding/asn1: tag, length, value with single-byte lengths.             *)
(***************************************************************************)
Tlv(tag, body) == <<tag, Len(body)>> \o body

\* Reads one element with the given tag from the front of b.
ParseTlv(b, tag) ==
    IF Len(b) >= 2 /\ b[1] = tag /\ b[2] < 128 /\ Len(b) >= 2 + b[2]
    THEN [ok |-> TRUE, body |-> SubSeq(b, 3, 2 + b[2]), rest |-> Drop(b, 2 + b[2])]
    ELSE [ok |-> FALSE, body |-> <<>>, rest |-> <<>>]

\* id-ecPublicKey, 1.2.840.10045.2.1
OidPublicKeyECDSA == <<42, 134, 72, 206, 61, 2, 1>>

\* elliptic.Marshal: the uncompressed form 04 || X || Y.
MarshalPoint(x, y) == <<4, x, y>>

\* elliptic.Unmarshal: nil unless the form is uncompressed and the point is on the curve.
UnmarshalPoint(c, b) ==
    IF Len(b) = 3 /\ b[1] = 4 /\ IsOnCurve(c, b[2], b[3])
    THEN [ok |-> TRUE, x |-> b[2], y |-> b[3]]
    ELSE [ok |-> FALSE, x |-> 0, y |-> 0]

(***************************************************************************)
(* crypto/x509: the key encodings.                                         *)
(***************************************************************************)
\* x509.MarshalECPrivateKey: SEQUENCE { version 1, OCTET STRING D,
\* [0] { OID curve }, [1] { BIT STRING point } }
MarshalECPrivateKey(c, priv) ==
    Tlv(48, Tlv(2, <<1>>)
            \o Tlv(4, <<priv.D>>)
            \o Tlv(160, Tlv(6, c.Oid))
            \o Tlv(161, Tlv(3, <<0>> \o MarshalPoint(priv.X, priv.Y))))

\* x509.ParseECPrivateKey: the version must be 1, the curve known and D below the
\* order; the public point is recomputed from D.
ParseECPrivateKey(c, der) ==
    LET outer == ParseTlv(der, 48)
        ver == ParseTlv(outer.body, 2)
        oct == ParseTlv(ver.rest, 4)
        par == ParseTlv(oct.rest, 160)
        oid == ParseTlv(par.body, 6)
    IN IF /\ outer.ok /\ outer.rest = <<>>
          /\ ver.ok /\ ver.body = <<1>>
          /\ oct.ok /\ Len(oct.body) = 1
          /\ par.ok /\ oid.ok /\ oid.body = c.Oid
          /\ oct.body[1] < c.N
       THEN [err |-> FALSE, key |-> PrivateKey(c, oct.body[1])]
       ELSE [err |-> TRUE, key |-> Nil]

\* x509.MarshalPKIXPublicKey: SEQUENCE { SEQUENCE { OID ecPublicKey, OID curve },
\* BIT STRING point }
MarshalPKIXPublicKey(c, pub) ==
    Tlv(48, Tlv(48, Tlv(6, OidPublicKeyECDSA) \o Tlv(6, c.Oid))
            \o Tlv(3, <<0>> \o MarshalPoint(pub.X, pub.Y)))

\* x509.ParsePKIXPublicKey
ParsePKIXPublicKey(c, der) ==
    LET outer == ParseTlv(der, 48)
        alg == ParseTlv(outer.body, 48)
        algOid == ParseTlv(alg.body, 6)
        crvOid == ParseTlv(algOid.rest, 6)
        bits == ParseTlv(alg.rest, 3)
        pt == UnmarshalPoint(c, IF Len(bits.body) >= 1 THEN Tail(bits.body) ELSE <<>>)
    IN IF /\ outer.ok /\ outer.rest = <<>>
          /\ alg.ok /\ algOid.ok /\ algOid.body = OidPublicKeyECDSA
          /\ crvOid.ok /\ crvOid.body = c.Oid /\ crvOid.rest = <<>>
          /\ bits.ok /\ bits.rest = <<>> /\ Len(bits.body) >= 1 /\ bits.body[1] = 0
          /\ pt.ok
       THEN [err |-> FALSE, key |-> PublicKey(c, pt.x, pt.y)]
       ELSE [err |-> TRUE, key |-> Nil]

(***************************************************************************)
(* encoding/pem and encoding/base64.                                       *)
(***************************************************************************)
\* A base64 character is its 6-bit value; Pad is '=' and BadChar a character
\* outside the alphabet.
Pad == 64
BadChar == 65

\* base64.StdEncoding.Encode: three bytes to four characters, padded.
B64Encode(b) ==
    LET n == Len(b)
        byteAt(i) == IF i <= n THEN b[i] ELSE 0
        group(g) == byteAt(3 * g + 1) * 65536 + byteAt(3 * g + 2) * 256 + byteAt(3 * g + 3)
        shift(pos) == IF pos = 0 THEN 262144 ELSE IF pos = 1 THEN 4096
                      ELSE IF pos = 2 THEN 64 ELSE 1
    IN [j \in 1..(4 * ((n + 2) \div 3)) |->
          LET g == (j - 1) \div 4
              pos == (j - 1) % 4
          IN IF (pos = 2 /\ 3 * g + 2 > n) \/ (pos = 3 /\ 3 * g + 3 > n)
             THEN Pad
             ELSE (group(g) \div shift(pos)) % 64]

\* base64.StdEncoding.Decode: fails on a character outside the alphabet, on a
\* length that is no multiple of four and on padding anywhere but at the end.
B64Decode(t) ==
    LET n == Len(t)
        npad == IF n >= 2 /\ t[n] = Pad /\ t[n - 1] = Pad THEN 2
                ELSE IF n >= 1 /\ t[n] = Pad THEN 1 ELSE 0
        val(j) == IF t[j] = Pad THEN 0 ELSE t[j]
        group(g) == val(4 * g + 1) * 262144 + val(4 * g + 2) * 4096
                    + val(4 * g + 3) * 64 + val(4 * g + 4)
        shift(pos) == IF pos = 0 THEN 65536 ELSE IF pos = 1 THEN 256 ELSE 1
    IN IF /\ n % 4 = 0
          /\ \A j \in 1..n : t[j] \in 0..Pad
          /\ \A j \in 1..(n - npad) : t[j] # Pad
       THEN [ok |-> TRUE,
             bytes |-> [i \in 1..(3 * (n \div 4) - npad) |->
                          (group((i - 1) \div 3) \div shift((i - 1) % 3)) % 256]]
       ELSE [ok |-> FALSE, bytes |-> <<>>]

\* A PEM text: the label of its BEGIN line ("" when there is none), the base64
\* characters of its body, and the label of its END line.
PemText(begin, body, end) == [begin |-> begin, body |-> body, end |-> end]
EmptyText == PemText("", <<>>, "")

\* pem.EncodeToMemory(&pem.Block{Type: t, Bytes: b})
EncodeToMemory(t, b) == PemText(t, B64Encode(b), t)

\* pem.Decode: the block of the first well-formed BEGIN/END pair, nil when the
\* text holds none (no BEGIN line, END label differing, body not base64).
PemDecode(text) ==
    LET d == B64Decode(text.body)
    IN IF text.begin # "" /\ text.end = text.begin /\ d.ok
       THEN [isNil |-> FALSE, Type |-> text.begin, Bytes |-> d.bytes]
       ELSE [isNil |-> TRUE, Type |-> "", Bytes |-> <<>>]

(***************************************************************************)
(* The encode/decode example.                                              *)
(***************************************************************************)
encodePubFromPrivBytes(priv, pub) ==
    LET x509Encoded == MarshalECPrivateKey(P384, priv)
    IN [priv |-> EncodeToMemory("PRIVATE KEY", x509Encoded),
        pub |-> EncodeToMemory("PUBLIC KEY", x509Encoded)]

\* func encode(privateKey, publicKey) (string, string)
encode(priv, pub) ==
    LET x509Encoded == MarshalECPrivateKey(P384, priv)
        x509EncodedPub == MarshalPKIXPublicKey(P384, pub)
    IN [priv |-> EncodeToMemory("PRIVATE KEY", x509Encoded),
        pub |-> EncodeToMemory("PUBLIC KEY", x509EncodedPub)]

\* func decode(pemEncoded, pemEncodedPub) (*ecdsa.PrivateKey, *ecdsa.PublicKey):
\* block.Bytes of a nil block is a nil pointer dereference; the parse errors are
\* dropped; the type assertion on a nil interface panics.  The function has no
\* error result.
decode(pemEncoded, pemEncodedPub) ==
    LET block == PemDecode(pemEncoded)
        priv == ParseECPrivateKey(P384, block.Bytes)
        blockPub == PemDecode(pemEncodedPub)
        genericPublicKey == ParsePKIXPublicKey(P384, blockPub.Bytes)
    IN IF block.isNil \/ blockPub.isNil
       THEN [outcome |-> "panic: nil pointer dereference", priv |-> Nil, pub |-> Nil]
       ELSE IF genericPublicKey.err
       THEN [outcome |-> "panic: interface conversion", priv |-> Nil, pub |-> Nil]
       ELSE [outcome |-> "returned", priv |-> priv.key, pub |-> genericPublicKey.key]

\* reflect.DeepEqual on keys: the same curve and the same integer values.
DeepEqual(a, b) == a = b

\* The texts decode is handed in place of what encode returned for a key: the text
\* itself, no text, the text under another label, with a character outside base64,
\* cut short, and with one byte of the key encoding changed.
Relabel(text, t) == PemText(t, text.body, t)
BadBase64(text) == PemText(text.begin, [text.body EXCEPT ![2] = BadChar], text.end)
NoEndLine(text) == PemText(text.begin, text.body, "")
CorruptByte(text, i) ==
    LET b == B64Decode(text.body).bytes
    IN PemText(text.begin, B64Encode([b EXCEPT ![i] = (@ + 1) % 256]), text.end)

TextVariants(text) ==
    { text, EmptyText, Relabel(text, "CERTIFICATE"), BadBase64(text), NoEndLine(text),
      CorruptByte(text, 3), CorruptByte(text, Len(B64Decode(text.body).bytes)) }

\* The other two programs are not run.
KeyInit ==
    /\ aesPc = "idle" /\ inputPdf = 0 /\ ciphertextPdf = 0 /\ data = 0 /\ nonce = 0
    /\ ciphertext = 0 /\ reverseNonce = 0 /\ plaintext = 0 /\ aesLog = 0 /\ aesHist = 0
    /\ sigPc = "idle" /\ sigKey = 0 /\ msg = 0 /\ hash = 0 /\ sig = 0 /\ valid = 0
    /\ keyPc = "start"
    /\ privateKey = Nil /\ publicKey = Nil
    /\ encPriv = EmptyText /\ encPub = EmptyText
    /\ priv2 = Nil /\ pub2 = Nil
    /\ keyOut = [outcome |-> "", printed |-> {}]

\* Lines 123-127: GenerateKey (error dropped) and the public key of the pair.
KeyGenerate ==
    /\ UNCHANGED <<aesVars, sigVars>>
    /\ keyPc = "start"
    /\ \E k \in GenerateKey(P384) :
          /\ privateKey' = k
          /\ publicKey' = PublicKeyOf(k)
    /\ keyPc' = "generated"
    /\ UNCHANGED <<encPriv, encPub, priv2, pub2, keyOut>>

\* Line 123-124 when rand.Reader fails: privateKey is nil and taking
\* &privateKey.PublicKey dereferences it.
KeyGenerateFail ==
    /\ UNCHANGED <<aesVars, sigVars>>
    /\ keyPc = "start"
    /\ keyPc' = "panicGenerate"
    /\ keyOut' = [keyOut EXCEPT !.outcome = "panic: nil pointer dereference"]
    /\ UNCHANGED <<privateKey, publicKey, encPriv, encPub, priv2, pub2>>

\* Lines 129-131
KeyEncode ==
    /\ UNCHANGED <<aesVars, sigVars>>
    /\ keyPc = "generated"
    /\ LET e == encode(privateKey, publicKey) IN
         /\ encPriv' = e.priv
         /\ encPub' = e.pub
    /\ keyPc' = "encoded"
    /\ UNCHANGED <<privateKey, publicKey, priv2, pub2, keyOut>>

\* Line 132
KeyDecode ==
    /\ UNCHANGED <<aesVars, sigVars>>
    /\ keyPc = "encoded"
    /\ LET d == decode(encPriv, encPub) IN
         /\ priv2' = d.priv
         /\ pub2' = d.pub
         /\ keyOut' = [keyOut EXCEPT !.outcome = d.outcome]
         /\ keyPc' = IF d.outcome = "returned" THEN "decoded" ELSE "panic"
    /\ UNCHANGED <<privateKey, publicKey, encPriv, encPub>>

\* Lines 133-138
KeyCompare ==
    /\ UNCHANGED <<aesVars, sigVars>>
    /\ keyPc = "decoded"
    /\ keyOut' = [keyOut EXCEPT !.printed =
                    (IF DeepEqual(privateKey, priv2) THEN {}
                     ELSE {"Private keys do not match."})
                    \cup (IF DeepEqual(publicKey, pub2) THEN {}
                          ELSE {"Public keys do not match."})]
    /\ keyPc' = "exit"
    /\ UNCHANGED <<privateKey, publicKey, encPriv, encPub, priv2, pub2>>

\* decode called by any caller, on texts that need not come from encode.
DecodeAnyTexts ==
    /\ UNCHANGED <<aesVars, sigVars>>
    /\ keyPc = "encoded"
    /\ \E t \in TextVariants(encPriv), u \in TextVariants(encPub) :
          /\ <<t, u>> # <<encPriv, encPub>>
          /\ encPriv' = t
          /\ encPub' = u
          /\ LET d == decode(t, u) IN
               /\ priv2' = d.priv
               /\ pub2' = d.pub
               /\ keyOut' = [keyOut EXCEPT !.outcome = d.outcome]
    /\ keyPc' = "decodedAny"
    /\ UNCHANGED <<privateKey, publicKey>>

KeyNext ==
    \/ KeyGenerate
    \/ KeyGenerateFail
    \/ KeyEncode
    \/ KeyDecode
    \/ KeyCompare
    \/ DecodeAnyTexts

(***************************************************************************)
(* The sign/verify example.                                                *)
(***************************************************************************)
\* Single-byte messages 0..MaxMsgByte are signed besides the fixed ones.
MaxMsgByte == 3

Messages == {Hello, Short, <<>>} \cup {<<b>> : b \in 0..MaxMsgByte}

\* sha256.Sum256: a digest of two bytes.
Sum256(m) ==
    <<(7 * Poly(3, m, 1, Len(m)) + 5 * Len(m) + 99) % 256,
      (11 * Poly(5, m, 1, Len(m)) + 3) % 256>>

\* The bit length of the curve order.
RECURSIVE BitLen(_)
BitLen(n) == IF n = 0 THEN 0 ELSE 1 + BitLen(n \div 2)

\* A big-endian byte string as an integer.
RECURSIVE BytesToInt(_)
BytesToInt(b) ==
    IF b = <<>> THEN 0 ELSE 256 * BytesToInt(Take(b, Len(b) - 1)) + b[Len(b)]

\* ecdsa's hashToInt: the leftmost bits of the digest, as many as the order has.
HashToInt(c, h) ==
    LET orderBits == BitLen(c.N)
        orderBytes == (orderBits + 7) \div 8
        t == IF Len(h) > orderBytes THEN Take(h, orderBytes) ELSE h
        excess == Len(t) * 8 - orderBits
    IN IF excess > 0 THEN BytesToInt(t) \div (2 ^ excess) ELSE BytesToInt(t)

\* The signature (r, s) of digest h under d with the per-signature secret k.
SignWith(c, d, h, k) ==
    LET kG == ScalarBaseMult(c, k)
        r == kG.x % c.N
        e == HashToInt(c, h)
    IN [r |-> r, s |-> (InvMod(k, c.N) * ((e + r * d) % c.N)) % c.N]

\* The ASN.1 form of a signature: SEQUENCE { INTEGER r, INTEGER s }
EncodeSignature(r, s) == Tlv(48, Tlv(2, <<r>>) \o Tlv(2, <<s>>))

ParseSignature(b) ==
    LET outer == ParseTlv(b, 48)
        r == ParseTlv(outer.body, 2)
        s == ParseTlv(r.rest, 2)
    IN IF /\ outer.ok /\ outer.rest = <<>>
          /\ r.ok /\ Len(r.body) = 1
          /\ s.ok /\ Len(s.body) = 1 /\ s.rest = <<>>
       THEN [ok |-> TRUE, r |-> r.body[1], s |-> s.body[1]]
       ELSE [ok |-> FALSE, r |-> 0, s |-> 0]

\* ecdsa.SignASN1(rand.Reader, priv, hash): the signatures it can return; a secret
\* k giving r = 0 or s = 0 is drawn again.
SignASN1(c, priv, h) ==
    { EncodeSignature(SignWith(c, priv.D, h, k).r, SignWith(c, priv.D, h, k).s) :
        k \in { k \in 1..(c.N - 1) :
                  SignWith(c, priv.D, h, k).r # 0 /\ SignWith(c, priv.D, h, k).s # 0 } }

\* ecdsa.VerifyASN1(pub, hash, sig): false for a signature that does not parse or
\* is out of range, else whether u1*G + u2*Q has x = r modulo N.
VerifyASN1(c, pub, h, sg) ==
    LET p == ParseSignature(sg)
        e == HashToInt(c, h)
        w == InvMod(p.s, c.N)
        u1 == (e * w) % c.N
        u2 == (p.r * w) % c.N
        pt == Add(c, ScalarBaseMult(c, u1), ScalarMult(c, Point(pub.X, pub.Y), u2))
    IN /\ p.ok
       /\ p.r \in 1..(c.N - 1) /\ p.s \in 1..(c.N - 1)
       /\ ~pt.inf
       /\ pt.x % c.N = p.r

\* The other two programs are not run.
SigInit ==
    /\ aesPc = "idle" /\ inputPdf = 0 /\ ciphertextPdf = 0 /\ data = 0 /\ nonce = 0
    /\ ciphertext = 0 /\ reverseNonce = 0 /\ plaintext = 0 /\ aesLog = 0 /\ aesHist = 0
    /\ keyPc = "idle" /\ privateKey = 0 /\ publicKey = 0 /\ encPriv = 0 /\ encPub = 0
    /\ priv2 = 0 /\ pub2 = 0 /\ keyOut = 0
    /\ sigPc = "start"
    /\ sigKey = Nil
    /\ msg \in Messages
    /\ hash = <<>>
    /\ sig = <<>>
    /\ valid = FALSE

\* Lines 171-174
SigGenerate ==
    /\ UNCHANGED <<aesVars, keyVars>>
    /\ sigPc = "start"
    /\ \E k \in GenerateKey(P384) : sigKey' = k
    /\ sigPc' = "generated"
    /\ UNCHANGED <<msg, hash, sig, valid>>

\* Lines 171-174 when rand.Reader fails: panic(err)
SigGenerateFail ==
    /\ UNCHANGED <<aesVars, keyVars>>
    /\ sigPc = "start"
    /\ sigPc' = "panic"
    /\ UNCHANGED <<sigKey, msg, hash, sig, valid>>

\* Lines 176-177
SigHash ==
    /\ UNCHANGED <<aesVars, keyVars>>
    /\ sigPc = "generated"
    /\ hash' = Sum256(msg)
    /\ sigPc' = "hashed"
    /\ UNCHANGED <<sigKey, msg, sig, valid>>

\* Lines 179-184
SigSign ==
    /\ UNCHANGED <<aesVars, keyVars>>
    /\ sigPc = "hashed"
    /\ \E sg \in SignASN1(P384, sigKey, hash) : sig' = sg
    /\ sigPc' = "signed"
    /\ UNCHANGED <<sigKey, msg, hash, valid>>

\* Lines 179-182 when rand.Reader fails: panic(err)
SigSignFail ==
    /\ UNCHANGED <<aesVars, keyVars>>
    /\ sigPc = "hashed"
    /\ sigPc' = "panic"
    /\ UNCHANGED <<sigKey, msg, hash, sig, valid>>

VerifySignatureOfTail(priv, h, sg) == VerifyASN1(P384, PublicKeyOf(priv), Drop(h, 1), sg)

\* Line 186: ecdsa.VerifyASN1(&privateKey.PublicKey, hash[:], sig)
VerifySignature(priv, h, sg) == VerifyASN1(P384, PublicKeyOf(priv), h, sg)

\* Lines 186-187
SigVerify ==
    /\ UNCHANGED <<aesVars, keyVars>>
    /\ sigPc = "signed"
    /\ valid' = VerifySignature(sigKey, hash, sig)
    /\ sigPc' = "verified"
    /\ UNCHANGED <<sigKey, msg, hash, sig>>

SigNext ==
    \/ SigGenerate
    \/ SigGenerateFail
    \/ SigHash
    \/ SigSign
    \/ SigSignFail
    \/ SigVerify

\* Runs of aes/main.go over the same two files.
SpecAES == AesInit /\ [][AesNext]_vars

\* The encode/decode example, and decode on texts of any origin.
SpecKeys == KeyInit /\ [][KeyNext]_vars

\* The sign/verify example.
SpecSign == SigInit /\ [][SigNext]_vars

(***************************************************************************)
(* Properties of aes/main.go (checked under SpecAES).                      *)
(***************************************************************************)
\* Seal was called and the write of ciphertext.pdf that follows it succeeded.
CipherSaved == aesLog.sealNonce # <<>> /\ "writeCipher" \notin aesLog.failed

\* The "Decrypting" block (lines 42-47) has acted in this run.
DecryptActed ==
    CipherSaved /\ aesPc \in {"open", "write", "exit", "panic"}

\* C1: the decryption step calls Open with the nonce Seal used and gets back
\* exactly the plaintext that was read from input.pdf and sealed in this run.
C1_OpenReturnsSealedPlaintext ==
    aesLog.openCalled =>
        /\ aesLog.openNonce = aesLog.sealNonce
        /\ "open" \notin aesLog.failed
        /\ plaintext = aesLog.read

\* C2: the bytes written to ciphertext.pdf are the nonce of the run immediately
\* followed by the ciphertext with its tag and nothing else: their length is
\* NonceSize + plaintext length + TagSize and their first NonceSize bytes are the
\* nonce passed to Seal.
C2_EnvelopeLayout ==
    CipherSaved =>
        /\ ciphertextPdf.exists
        /\ aesLog.sealNonce = nonce
        /\ Len(nonce) = NonceSize
        /\ Len(ciphertextPdf.bytes) = NonceSize + Len(aesLog.read) + TagSize
        /\ Take(ciphertextPdf.bytes, NonceSize) = nonce
        /\ Drop(ciphertextPdf.bytes, NonceSize) = Seal(Key, <<>>, nonce, aesLog.read, <<>>)

C2_Witness ==
    CipherSaved /\ aesPc = "slice" /\ Len(aesLog.read) > 0
    /\ Len(ciphertextPdf.bytes) = NonceSize + Len(aesLog.read) + TagSize

\* C5: when the bytes handed to the decryption step are fewer than NonceSize, the
\* step ends in a MalformedEnvelope error outcome and Open is never called.
C5_ShortInputIsMalformedEnvelope ==
    (DecryptActed /\ Len(aesLog.read) < NonceSize) =>
        /\ "malformedEnvelope" \in aesLog.failed
        /\ "sliceBounds" \notin aesLog.failed
        /\ ~aesLog.openCalled

\* C6: a failure is not swallowed (a step that fails ends the run) and a run in
\* which some step failed wrote no file: both files hold at its end what they
\* held at its start.
C6_FailedRunWritesNothing ==
    /\ aesLog.failed # {} => AesDone
    /\ (AesDone /\ aesLog.failed # {}) =>
          /\ aesLog.wrote = {}
          /\ inputPdf = aesLog.startInput
          /\ ciphertextPdf = aesLog.startCipher

\* C8: in a run where Open rejected its input, the write to input.pdf is not
\* executed and input.pdf keeps the content it had when the run started.
C8_OpenFailsClosed ==
    "open" \in aesLog.failed =>
        /\ "input.pdf" \notin aesLog.wrote
        /\ inputPdf = aesLog.startInput

C8_Witness ==
    /\ "open" \in aesLog.failed /\ aesLog.openCalled /\ aesPc = "panic"
    /\ inputPdf.exists /\ inputPdf = aesLog.startInput

\* C9, as claimed: after the second run input.pdf no longer holds its original
\* content.
C9_SecondRunCorrupts ==
    (aesHist.runs = 2 /\ AesDone) => inputPdf # aesHist.orig

\* C9, amended: input.pdf differs from its original content exactly when some
\* run wrote to it, which a run does only after its Open accepted the bytes read
\* from input.pdf; otherwise input.pdf holds its original content after any
\* number of runs.
C9_CorruptsOnlyAfterOpenAccepts ==
    /\ (inputPdf # aesHist.orig) <=> aesHist.overwrote
    /\ aesHist.overwrote => aesHist.accepted

\* Two runs, the first of which overwrote input.pdf with a decrypted payload.
C9_Witness ==
    /\ aesHist.runs = 2 /\ AesDone /\ aesHist.overwrote
    /\ inputPdf # aesHist.orig

\* C10: every Seal uses a nonce drawn from the random source and no nonce is used
\* by two Seal calls under the hardcoded key.
C10_NonceNeverReused ==
    /\ aesLog.sealNonce # <<>> => aesLog.sealNonce \in RandNonces
    /\ ~aesHist.reused

(***************************************************************************)
(* Properties of the sign/verify example (checked under SpecSign).         *)
(***************************************************************************)
\* C3: for every generated key pair and every digest, verifying with the public
\* key of the pair the signature that sign produced over the digest with the
\* private key of the pair returns true.
C3_VerifyAcceptsOwnSignature ==
    sigPc = "verified" => valid = TRUE

C3_Witness ==
    /\ sigPc = "verified" /\ valid = TRUE /\ msg = Hello
    /\ sigKey.D > 1 /\ ParseSignature(sig).ok

(***************************************************************************)
(* Properties of the encode/decode example (checked under SpecKeys).       *)
(***************************************************************************)
\* C4: for every generated key pair, decode(encode(privateKey, publicKey)) returns
\* keys equal in value to the originals, and main prints neither "Private keys do
\* not match." nor "Public keys do not match.".
C4_RoundTrip ==
    /\ keyPc # "panic"
    /\ keyPc \in {"decoded", "exit"} =>
          /\ ~priv2.isNil /\ ~pub2.isNil
          /\ priv2 = privateKey
          /\ pub2 = publicKey
    /\ keyOut.printed = {}

C4_Witness ==
    /\ keyPc = "exit" /\ keyOut.outcome = "returned" /\ keyOut.printed = {}
    /\ priv2 = privateKey /\ pub2 = publicKey /\ privateKey.D > 1

\* A text block that is missing, mislabeled or corrupt.
BadPrivateText(text) ==
    LET block == PemDecode(text)
    IN block.isNil \/ block.Type # "PRIVATE KEY" \/ ParseECPrivateKey(P384, block.Bytes).err

BadPublicText(text) ==
    LET block == PemDecode(text)
    IN block.isNil \/ block.Type # "PUBLIC KEY" \/ ParsePKIXPublicKey(P384, block.Bytes).err

\* C7: decode, given a private-key or public-key text block that is missing,
\* mislabeled or corrupt, ends in a DecodeError outcome reported to the caller; it
\* neither crashes nor returns a key.
C7_BadTextGivesDecodeError ==
    (keyPc = "decodedAny" /\ (BadPrivateText(encPriv) \/ BadPublicText(encPub))) =>
        /\ keyOut.outcome = "DecodeError"
        /\ priv2.isNil /\ pub2.isNil
=============================================================================
